---- MODULE Spec2Model ----
(***************************************************************************)
(* State-machine model of margin_trader's simulated broker                 *)
(* (src/margin_trader/broker/sim_broker.py): SimBroker, PositionManager    *)
(* and Position.  One action per public call.  A call that raises leaves   *)
(* the object as mutated up to the raising statement; the exception is     *)
(* recorded in `raised` and the caller may go on using the object.         *)
(***************************************************************************)
EXTENDS Integers, Sequences, FiniteSets, TLC

\* ---------------------------------------------------------------- bounds
MaxQueue == 1
MaxHistory == 2
MaxBars == 1
MaxPriceCalls == 2

Symbols == {"AAPL"}
UnitChoices == {1, 2}
Leverage == 2
StartBalance == 100
Commission == 1
\* units of buy, sell and close when the caller gives none
DefaultUnits == 100

\* close_time of a position that was never closed (the attribute is unset)
NoTime == 0 - 1

\* balance, equity, free_margin, margin, leverage, commission:
\*                the SimBroker fields set by __init__ (sim_broker.py 28-35)
\* exec_bar:      the _exec_bar attribute the tests set; no method reads it
\* positions:     PositionManager.positions, a dict symbol -> Position
\* history:       PositionManager.history, the list of closed positions
\* events:        the FIFO queue shared with the driver
\* bar:           the data handler's current_datetime, as a bar index
\* raised:        the exception the most recent call raised, "" if none
\* last_event:    the event the most recent call was handed
\* last_call:     the most recent public call: its name and its symbol and
\*                units arguments ("" and NoArg where it has none); for
\*                update_pnl the number is the price argument
\* account_history: the snapshots the broker has recorded; SimBroker never
\*                creates or appends to such an attribute
\* price_calls:   update_account_from_price calls in a row since any other
\*                call (counted up to MaxPriceCalls)
VARIABLES balance, equity, free_margin, margin, leverage, commission,
          exec_bar, positions, history, events, bar,
          raised, last_event, last_call, price_calls, account_history

vars == <<balance, equity, free_margin, margin, leverage, commission,
          exec_bar, positions, history, events, bar,
          raised, last_event, last_call, price_calls, account_history>>

\* ------------------------------------------------------- data handler
\* The historic bars the data handler replays: the close price of a symbol
\* at a bar is fixed data.  AAPL rises from bar to bar, MSFT alternates.
\* All prices are even, so cost / leverage is exact.
get_latest_close_price(symbol, b) ==
    IF symbol = "AAPL" THEN 2 * (b + 1) ELSE 4 - 2 * (b % 2)

\* The event the most recent call was handed; NoEvent when it took none.
NoEvent == [type |-> "NONE"]

\* An argument the caller left out.
NoArg == 0

\* The prices a caller hands to PositionManager.update_pnl.
PriceChoices == {2, 4}

Call(op, symbol, units) == [op |-> op, symbol |-> symbol, units |-> units]

\* ------------------------------------------------------------ events
\* margin_trader.event is not among the sources; the constructors are
\* modelled from what tests/test_events.py asserts of freshly built events:
\* an OrderEvent has status "" and a FillEvent has result "open".
OrderEvent(symbol, order_type, units, side) ==
    [type |-> "ORDER", symbol |-> symbol, order_type |-> order_type,
     units |-> units, side |-> side, status |-> ""]

FillEvent(timeindex, symbol, units, side, fill_price, comm) ==
    [type |-> "FILL", timeindex |-> timeindex, symbol |-> symbol,
     units |-> units, side |-> side, fill_price |-> fill_price,
     commission |-> comm, result |-> "open"]

\* ------------------------------------------------------------ Position
Position(timeindex, symbol, units, fill_price, comm, side) ==
    [symbol |-> symbol, units |-> units, fill_price |-> fill_price,
     last_price |-> fill_price, commission |-> comm, side |-> side,
     open_time |-> timeindex, close_time |-> NoTime, pnl |-> 0,
     cost |-> fill_price * units]

update_pnl(p) ==
    LET pnl == (p.last_price - p.fill_price) * p.units
    IN  IF p.side = "BUY"
        THEN [p EXCEPT !.pnl = pnl - p.commission]
        ELSE [p EXCEPT !.pnl = (0 - 1) * pnl - p.commission]

update_last_price(p, price) == [p EXCEPT !.last_price = price]

update(p, price) == update_pnl(update_last_price(p, price))

update_close_time(p, timeindex) == [p EXCEPT !.close_time = timeindex]

get_cost(p) == p.cost

\* ------------------------------------------------------ PositionManager
\* The dict `positions` is a function whose DOMAIN is the set of keys.
DictSet(d, k, v) == [s \in (DOMAIN d) \cup {k} |-> IF s = k THEN v ELSE d[s]]

\* del replaced by keeping the key with the position's size set to zero.
DictDel_zero_size(d, k) == [d EXCEPT ![k].units = 0]

DictDel(d, k) == [s \in (DOMAIN d) \ {k} |-> d[s]]

open_position(pos, hist, event) ==
    [positions |-> DictSet(pos, event.symbol,
                           Position(event.timeindex, event.symbol, event.units,
                                    event.fill_price, event.commission,
                                    event.side)),
     history |-> hist]

\* close_position that forgets to add the closing fill's commission.
close_position_no_closing_fee(pos, hist, event) ==
    LET p0 == pos[event.symbol]
        p2 == update(p0, event.fill_price)
        p3 == update_close_time(p2, event.timeindex)
    IN  [positions |-> DictDel(pos, event.symbol),
         history |-> Append(hist, p3)]

close_position(pos, hist, event) ==
    LET p0 == pos[event.symbol]
        p1 == [p0 EXCEPT !.commission = @ + event.commission]
        p2 == update(p1, event.fill_price)
        p3 == update_close_time(p2, event.timeindex)
    IN  [positions |-> DictDel(pos, event.symbol),
         history |-> Append(hist, p3)]

\* update_position_from_fill that opens a position of the fill's side with
\* the units an oversized closing fill has in excess of the live position.
update_position_from_fill_flipping(pos, hist, event) ==
    IF event.symbol \notin DOMAIN pos
    THEN open_position(pos, hist, event)
    ELSE LET live == pos[event.symbol]
             closed == close_position(pos, hist, event)
         IN  IF event.side # live.side /\ event.units > live.units
             THEN open_position(closed.positions, closed.history,
                                [event EXCEPT !.units = @ - live.units])
             ELSE closed

update_position_from_fill(pos, hist, event) ==
    IF event.symbol \notin DOMAIN pos
    THEN open_position(pos, hist, event)
    ELSE close_position(pos, hist, event)

\* Result of PositionManager.update_pnl: the positions after
\* self.positions[symbol].update(price), or the KeyError the subscript raises
\* for a symbol that is not a key of the dict.
pm_update_pnl(pos, symbol, price) ==
    IF symbol \in DOMAIN pos
    THEN [raised |-> "", positions |-> [pos EXCEPT ![symbol] = update(@, price)]]
    ELSE [raised |-> "KeyError", positions |-> pos]

RECURSIVE SumOver(_, _)
SumOver(f, S) ==
    IF S = {} THEN 0
    ELSE LET s == CHOOSE x \in S : TRUE IN f[s] + SumOver(f, S \ {s})

get_total_pnl(pos) ==
    SumOver([s \in DOMAIN pos |-> pos[s].pnl], DOMAIN pos)

\* The methods PositionManager defines; an attribute lookup of any other
\* name on a PositionManager raises AttributeError.
PositionManagerMethods ==
    {"update_pnl", "update_position_from_fill", "get_total_pnl"}

\* ------------------------------------------------------------ SimBroker
\* Python's a / b for b # 0 on the amounts that occur here (a is a multiple
\* of b); the callers raise ZeroDivisionError for b = 0.
TrueDiv(a, b) ==
    IF b > 0 THEN a \div b ELSE 0 - (a \div (0 - b))

get_used_margin(pos, lev) ==
    TrueDiv(SumOver([s \in DOMAIN pos |-> get_cost(pos[s])], DOMAIN pos), lev)

update_positions_from_price(pos, b) ==
    [s \in DOMAIN pos |->
        pm_update_pnl(pos, s, get_latest_close_price(s, b)).positions[s]]

\* Result of __update_margin_from_fill: the new margin, or the exception
\* raised by the division when the leverage is 0.
update_margin_from_fill(m, pos, lev, event) ==
    IF lev = 0
    THEN [raised |-> "ZeroDivisionError", margin |-> m]
    ELSE IF event.symbol \in DOMAIN pos
         THEN [raised |-> "",
               margin |-> m - TrueDiv(get_cost(pos[event.symbol]), lev)]
         ELSE [raised |-> "",
               margin |-> m + TrueDiv(event.units * event.fill_price, lev)]

\* Result of __update_balance: the new balance, or the exception raised by
\* history[-1] on an empty list.
update_balance(bal, m, prev_margin, hist) ==
    IF m < prev_margin
    THEN IF hist = <<>>
         THEN [raised |-> "IndexError", balance |-> bal]
         ELSE [raised |-> "", balance |-> bal + hist[Len(hist)].pnl]
    ELSE [raised |-> "", balance |-> bal]

\* __update_equity with the method name spelled as PositionManager defines
\* it: the total pnl is added on top of the previous equity.
update_equity_accumulating(eq, pos) ==
    [raised |-> "", equity |-> eq + get_total_pnl(pos)]

\* Result of __update_equity: it calls p_manager.get_totat_pnl().
update_equity(eq, pos) ==
    IF "get_totat_pnl" \in PositionManagerMethods
    THEN [raised |-> "", equity |-> eq + get_total_pnl(pos)]
    ELSE [raised |-> "AttributeError", equity |-> eq]

update_free_margin(eq, pos, lev) == eq - get_used_margin(pos, lev)

\* ------------------------------------------------------------ Init
\* The state after SimBroker(balance, data_handler, events, leverage,
\* commission), with the execution policy the caller sets on the object.
Construct(lev, policy) ==
    /\ balance = StartBalance
    /\ equity = StartBalance
    /\ free_margin = StartBalance
    /\ margin = 0
    /\ leverage = lev
    /\ commission = Commission
    /\ exec_bar = policy
    /\ positions = << >>
    /\ history = << >>
    /\ events = << >>
    /\ bar = 0
    /\ raised = ""
    /\ last_event = NoEvent
    /\ last_call = Call("init", "", NoArg)
    /\ price_calls = 0
    /\ account_history = << >>

Init == Construct(Leverage, "current")

\* The broker of the tests that set _exec_bar to "next".
InitNext == Construct(Leverage, "next")

\* ------------------------------------------------------------ actions
\* __create_order that puts the order on the queue twice.
create_order_put_twice(symbol, order_type, side, units) ==
    /\ Len(events) < MaxQueue
    /\ events' = Append(Append(events,
                               OrderEvent(symbol, order_type, units, side)),
                        OrderEvent(symbol, order_type, units, side))
    /\ raised' = ""
    /\ last_event' = NoEvent
    /\ price_calls' = 0
    /\ UNCHANGED <<account_history, balance, equity, free_margin, margin, leverage, commission,
                   exec_bar, positions, history, bar>>

create_order(symbol, order_type, side, units) ==
    /\ Len(events) < MaxQueue
    /\ events' = Append(events, OrderEvent(symbol, order_type, units, side))
    /\ raised' = ""
    /\ last_event' = NoEvent
    /\ price_calls' = 0
    /\ UNCHANGED <<account_history, balance, equity, free_margin, margin, leverage, commission,
                   exec_bar, positions, history, bar>>

\* buy(symbol, order_type, units) and sell(symbol, order_type, units)
sim_buy(symbol, order_type, units) ==
    create_order(symbol, order_type, "BUY", units)

sim_sell(symbol, order_type, units) ==
    create_order(symbol, order_type, "SELL", units)

buy ==
    \E symbol \in Symbols, units \in UnitChoices :
        /\ sim_buy(symbol, "MKT", units)
        /\ last_call' = Call("buy", symbol, units)

sell ==
    \E symbol \in Symbols, units \in UnitChoices :
        /\ sim_sell(symbol, "MKT", units)
        /\ last_call' = Call("sell", symbol, units)

\* close(symbol, units=100).  It calls self.sell(symbol, units) or
\* self.buy(symbol, units): the second positional parameter of sell and buy
\* is order_type, so the order gets order_type = units (held here as its
\* text) and the default units.  Without a live position it only prints.
\* close that does not test for a live position and buys when it finds no
\* BUY position.
close_with_unguarded(symbol, units) ==
    IF symbol \in DOMAIN positions /\ positions[symbol].side = "BUY"
    THEN sim_sell(symbol, ToString(units), DefaultUnits)
    ELSE sim_buy(symbol, ToString(units), DefaultUnits)

close_with(symbol, units) ==
    IF symbol \in DOMAIN positions
    THEN IF positions[symbol].side = "BUY"
         THEN sim_sell(symbol, ToString(units), DefaultUnits)
         ELSE sim_buy(symbol, ToString(units), DefaultUnits)
    ELSE /\ raised' = ""
         /\ last_event' = NoEvent
         /\ price_calls' = 0
         /\ UNCHANGED <<account_history, balance, equity, free_margin, margin, leverage,
                        commission, exec_bar, positions, history, events, bar>>

close ==
    \E symbol \in Symbols, units \in UnitChoices \cup {NoArg} :
        /\ close_with(symbol, IF units = NoArg THEN DefaultUnits ELSE units)
        /\ last_call' = Call("close", symbol, units)

\* The driver takes the event at the head of the queue and hands an ORDER
\* event to execute_order.
execute_order ==
    /\ events # << >>
    /\ Head(events).type = "ORDER"
    /\ LET event == Head(events)
           fill_event == FillEvent(bar, event.symbol, event.units, event.side,
                                   get_latest_close_price(event.symbol, bar), commission)
       IN  events' = Append(Tail(events), fill_event)
    /\ last_event' = Head(events)
    /\ last_call' = Call("execute_order", "", NoArg)
    /\ raised' = ""
    /\ price_calls' = 0
    /\ UNCHANGED <<account_history, balance, equity, free_margin, margin, leverage, commission,
                   exec_bar, positions, history, bar>>

\* The driver takes the event at the head of the queue and hands a FILL
\* event to update_account_from_fill.
update_account_from_fill ==
    /\ events # << >>
    /\ Head(events).type = "FILL"
    /\ LET event == Head(events)
           curr_margin == margin
           pm == update_position_from_fill(positions, history, event)
           m == update_margin_from_fill(margin, pm.positions, leverage, event)
           b == IF m.raised = ""
                THEN update_balance(balance, m.margin, curr_margin, pm.history)
                ELSE [raised |-> m.raised, balance |-> balance]
       IN  /\ Len(pm.history) <= MaxHistory
           /\ positions' = pm.positions
           /\ history' = pm.history
           /\ margin' = m.margin
           /\ balance' = b.balance
           /\ raised' = b.raised
    /\ events' = Tail(events)
    /\ last_event' = Head(events)
    /\ last_call' = Call("update_account_from_fill", "", NoArg)
    /\ price_calls' = 0
    /\ UNCHANGED <<account_history, equity, free_margin, leverage, commission, exec_bar, bar>>

update_account_from_price ==
    /\ LET pos == update_positions_from_price(positions, bar)
           e == update_equity(equity, pos)
       IN  /\ positions' = pos
           /\ raised' = e.raised
           /\ equity' = e.equity
           /\ free_margin' = IF e.raised = ""
                             THEN update_free_margin(e.equity, pos, leverage)
                             ELSE free_margin
    /\ last_event' = NoEvent
    /\ last_call' = Call("update_account_from_price", "", NoArg)
    /\ price_calls' = IF price_calls < MaxPriceCalls
                      THEN price_calls + 1 ELSE price_calls
    /\ UNCHANGED <<account_history, balance, margin, leverage, commission, exec_bar, history,
                   events, bar>>

\* A direct call p_manager.update_pnl(symbol, price), as the strategy or a
\* test makes it.
position_manager_update_pnl ==
    /\ \E symbol \in Symbols, price \in PriceChoices :
        LET r == pm_update_pnl(positions, symbol, price)
        IN  /\ positions' = r.positions
            /\ raised' = r.raised
            /\ last_call' = Call("update_pnl", symbol, price)
    /\ last_event' = NoEvent
    /\ price_calls' = 0
    /\ UNCHANGED <<account_history, balance, equity, free_margin, margin, leverage,
                   commission, exec_bar, history, events, bar>>

\* The data handler moves to the next bar; the MARKET event it queues is
\* taken off the queue by the driver at once and carries no data.
update_bars ==
    /\ bar < MaxBars
    /\ bar' = bar + 1
    /\ raised' = ""
    /\ last_event' = NoEvent
    /\ last_call' = Call("update_bars", "", NoArg)
    /\ price_calls' = 0
    /\ UNCHANGED <<account_history, balance, equity, free_margin, margin, leverage, commission,
                   exec_bar, positions, history, events>>

Next ==
    \/ buy
    \/ sell
    \/ close
    \/ execute_order
    \/ update_account_from_fill
    \/ update_account_from_price
    \/ position_manager_update_pnl
    \/ update_bars

Spec == Init /\ [][Next]_vars

SpecNext == InitNext /\ [][Next]_vars

\* SimBroker.__init__ stores whatever leverage it is given.
LeverageChoices == {0 - Leverage, 0, Leverage}

InitAnyLeverage == \E lev \in LeverageChoices : Construct(lev, "current")

SpecAnyLeverage == InitAnyLeverage /\ [][Next]_vars

\* ------------------------------------------------------------ steps
\* A step in which update_account_from_fill consumed the FILL at the head
\* of the queue (no other action shortens the queue).
FillStep ==
    /\ events # << >>
    /\ Head(events).type = "FILL"
    /\ events' = Tail(events)

\* The fill at the head of the queue meets a live position of its symbol.
FillMeetsLive ==
    /\ events # << >>
    /\ Head(events).type = "FILL"
    /\ Head(events).symbol \in DOMAIN positions

LastRecord == history[Len(history)]

\* ------------------------------------------------------------ claims

\* C1: after any sequence of fills and price updates, once the call has
\* returned, margin equals the sum over the live positions of
\* (average fill price x units) / leverage, i.e. what get_used_margin returns.
C1_MarginInvariant ==
    raised = "" => margin = get_used_margin(positions, leverage)

\* C2: immediately after every update_account_from_price call,
\* equity = balance + the sum of the pnl of all live positions.
C2_EquityInvariant ==
    price_calls >= 1 => equity = balance + get_total_pnl(positions)

\* C3: after every public call that returned, update_account_from_fill
\* included, free_margin = equity - margin.
C3_FreeMarginInvariant ==
    raised = "" => free_margin = equity - margin

\* C4: a fill that reduces or removes a live position increases balance by
\* exactly the pnl of the most recent history record; a fill that opens a
\* position or adds to one completes with balance unchanged.
C4_BalanceUnderFills ==
    [][FillStep =>
        IF FillMeetsLive /\ positions[Head(events).symbol].side # Head(events).side
        THEN /\ Len(history') >= 1
             /\ balance' = balance + history'[Len(history')].pnl
        ELSE /\ raised' = ""
             /\ balance' = balance]_vars

\* C5: when update_account_from_fill has run, the ledger is consistent with
\* the live positions without a later price update; after the fill that
\* closes the only live position, equity = balance and margin = 0.
C5_LedgerConsistentAfterFill ==
    last_event.type = "FILL" =>
        /\ margin = get_used_margin(positions, leverage)
        /\ equity = balance + get_total_pnl(positions)
        /\ free_margin = equity - margin
        /\ (DOMAIN positions = {} => (equity = balance /\ margin = 0))

C7_AddToPosition ==
    [][(FillStep /\ FillMeetsLive
        /\ positions[Head(events).symbol].side = Head(events).side) =>
        LET f == Head(events)
            old == positions[f.symbol]
        IN  /\ f.symbol \in DOMAIN positions'
            /\ positions'[f.symbol].units = old.units + f.units
            /\ positions'[f.symbol].fill_price * (old.units + f.units)
                   = old.units * old.fill_price + f.units * f.fill_price
            /\ history' = history]_vars

\* C8: an opposite-side fill with fill.units < live.units leaves the position
\* live with units reduced by fill.units and the same average fill price, and
\* appends exactly one history record of fill.units units whose pnl is that
\* of the closed units at the fill price.
C8_PartialClose ==
    [][(FillStep /\ FillMeetsLive
        /\ positions[Head(events).symbol].side # Head(events).side
        /\ Head(events).units < positions[Head(events).symbol].units) =>
        LET f == Head(events)
            old == positions[f.symbol]
            diff == IF old.side = "BUY" THEN f.fill_price - old.fill_price
                    ELSE old.fill_price - f.fill_price
        IN  /\ f.symbol \in DOMAIN positions'
            /\ positions'[f.symbol].units = old.units - f.units
            /\ positions'[f.symbol].fill_price = old.fill_price
            /\ Len(history') = Len(history) + 1
            /\ history'[Len(history')].units = f.units
            /\ history'[Len(history')].pnl
                   = diff * f.units - (old.commission + f.commission)]_vars

\* C9: a fill that fully closes the live position of its symbol (opposite
\* side, same units) removes the symbol from the live mapping and appends
\* exactly one history record for that symbol, whose commission is the sum of
\* the opening and the closing fill's commission and whose close_time is the
\* closing fill's timeindex.
C9_FullClose ==
    [][(FillStep /\ FillMeetsLive
        /\ positions[Head(events).symbol].side # Head(events).side
        /\ Head(events).units = positions[Head(events).symbol].units) =>
        LET f == Head(events)
            old == positions[f.symbol]
        IN  /\ f.symbol \notin DOMAIN positions'
            /\ Len(history') = Len(history) + 1
            /\ SubSeq(history', 1, Len(history)) = history
            /\ history'[Len(history')].symbol = f.symbol
            /\ old.commission = commission
            /\ history'[Len(history')].commission = commission + f.commission
            /\ history'[Len(history')].close_time = f.timeindex]_vars

\* C9 witness: the fill just applied was of the opposite side and of the same
\* units as the position it met, which is now the last history record.
C9_Witness ==
    /\ last_event.type = "FILL"
    /\ last_event.symbol \notin DOMAIN positions
    /\ Len(history) >= 1
    /\ LastRecord.symbol = last_event.symbol
    /\ LastRecord.side # last_event.side
    /\ LastRecord.units = last_event.units
    /\ LastRecord.close_time = last_event.timeindex

\* C10: under the NEXT policy an order that has just been handled is PENDING
\* and has produced no fill while the bar it was placed at is current.
C10_DeferredExecution ==
    (exec_bar = "next" /\ last_event.type = "ORDER") =>
        /\ last_event.status = "PENDING"
        /\ \A i \in 1..Len(events) :
               ~(events[i].type = "FILL" /\ events[i].timeindex = bar)

\* C11: under the CURRENT policy execute_order enqueues a FILL with the
\* order's symbol, units and side, the current datetime, the current bar's
\* close price and the configured commission; the order becomes FILLED; the
\* fill's result is open when the symbol has no live position or the fill is
\* of the position's side, and close otherwise.
C11_ImmediateExecution ==
    (exec_bar = "current" /\ last_call.op = "execute_order") =>
        LET o == last_event
            f == events[Len(events)]
        IN  /\ f.type = "FILL"
            /\ f.symbol = o.symbol
            /\ f.units = o.units
            /\ f.side = o.side
            /\ f.timeindex = bar
            /\ f.fill_price = get_latest_close_price(o.symbol, bar)
            /\ f.commission = commission
            /\ o.status = "FILLED"
            /\ f.result = IF \/ o.symbol \notin DOMAIN positions
                             \/ positions[o.symbol].side = o.side
                          THEN "open" ELSE "close"

\* A step of buy or sell (they always lengthen the queue).
BuySellStep ==
    /\ last_call'.op \in {"buy", "sell"}
    /\ events' # events

\* The order buy(symbol, units) or sell(symbol, units) is to put on the queue,
\* with the given status.
OrderOfCall(call, status) ==
    [type |-> "ORDER", symbol |-> call.symbol, order_type |-> "MKT",
     units |-> call.units,
     side |-> IF call.op = "buy" THEN "BUY" ELSE "SELL",
     status |-> status]

\* C12 (as stated): buy and sell append exactly one ORDER event with the given
\* symbol and units, side BUY resp. SELL, market order type and status NEW,
\* and leave the ledger, the live positions and the history unchanged.
C12_OrderStatusNew ==
    [][BuySellStep =>
        /\ events' = Append(events, OrderOfCall(last_call', "NEW"))
        /\ UNCHANGED <<balance, equity, free_margin, margin, positions,
                       history>>]_vars

\* C12 (amended): as above, but the order carries the status an OrderEvent
\* is constructed with, the empty string.
C12_OrderCreated ==
    [][BuySellStep =>
        /\ events' = Append(events, OrderOfCall(last_call', ""))
        /\ UNCHANGED <<balance, equity, free_margin, margin, positions,
                       history>>]_vars

\* C12 witness: sell has just put its order behind a live position.
C12_Witness ==
    /\ last_call.op = "sell"
    /\ DOMAIN positions # {}
    /\ events # << >>
    /\ events[Len(events)] = OrderOfCall(last_call, "")

\* C13: close(symbol) for a symbol with no live position raises nothing, puts
\* no event on the queue and leaves the ledger, the live positions and the
\* history unchanged.
C13_CloseWithoutPosition ==
    [][(last_call'.op = "close" /\ last_call'.symbol \notin DOMAIN positions) =>
        /\ raised' = ""
        /\ events' = events
        /\ UNCHANGED <<balance, equity, free_margin, margin, positions,
                       history>>]_vars

\* C13 witness: close was called for a symbol whose position had been closed
\* before.
C13_Witness ==
    /\ last_call.op = "close"
    /\ last_call.symbol \notin DOMAIN positions
    /\ \E i \in 1..Len(history) : history[i].symbol = last_call.symbol

\* C14: close(symbol) for a symbol with a live position appends exactly one
\* market ORDER event of the side opposite to the position's, whose units are
\* the requested units, or the full live size when units is left out.
C14_CloseOrder ==
    [][(/\ last_call'.op = "close"
        /\ last_call'.symbol \in DOMAIN positions
        /\ events' # events) =>
        LET p == positions[last_call'.symbol]
            o == events'[Len(events')]
        IN  /\ events' = Append(events, o)
            /\ o.type = "ORDER"
            /\ o.symbol = p.symbol
            /\ o.side = (IF p.side = "BUY" THEN "SELL" ELSE "BUY")
            /\ o.order_type = "MKT"
            /\ o.units = (IF last_call'.units = NoArg
                          THEN p.units ELSE last_call'.units)]_vars

\* C15: every update_account_from_price call appends one snapshot
\* {timeindex, balance, equity, margin, free_margin} to account_history, with
\* the current datetime and the ledger as it stands when the call ends.
C15_AccountHistory ==
    last_call.op = "update_account_from_price" =>
        /\ Len(account_history) >= 1
        /\ account_history[Len(account_history)]
               = [timeindex |-> bar, balance |-> balance, equity |-> equity,
                  margin |-> margin, free_margin |-> free_margin]

\* C17: constructing a broker with leverage <= 0 fails, so every broker that
\* processes a fill has a leverage of at least 1.
C17_LeverageValidated ==
    last_call.op = "update_account_from_fill" => leverage >= 1

\* C18: an opposite-side fill of more units than the live position of its
\* symbol closes that position in full and removes the symbol from the live
\* mapping; the excess units open no position, and exactly one history record
\* is appended, carrying the units the position had.
C18_OversizedClose ==
    [][(FillStep /\ FillMeetsLive
        /\ positions[Head(events).symbol].side # Head(events).side
        /\ Head(events).units > positions[Head(events).symbol].units) =>
        LET f == Head(events)
            old == positions[f.symbol]
        IN  /\ f.symbol \notin DOMAIN positions'
            /\ DOMAIN positions' = DOMAIN positions \ {f.symbol}
            /\ Len(history') = Len(history) + 1
            /\ SubSeq(history', 1, Len(history)) = history
            /\ history'[Len(history')].symbol = f.symbol
            /\ history'[Len(history')].side = old.side
            /\ history'[Len(history')].units = old.units]_vars

\* C18 witness: the fill just applied was of the opposite side and of more
\* units than the position it met, which is now the last history record.
C18_Witness ==
    /\ last_event.type = "FILL"
    /\ last_event.symbol \notin DOMAIN positions
    /\ Len(history) >= 1
    /\ LastRecord.symbol = last_event.symbol
    /\ LastRecord.side # last_event.side
    /\ LastRecord.close_time = last_event.timeindex
    /\ last_event.units > LastRecord.units

\* C19: under the NEXT policy an order is filled by the next price-bar tick
\* and by nothing else: a FILL is put on the queue only in a step that moves
\* to the next bar, it carries the new bar's datetime, and no order is left on
\* the queue the tick found there.
C19_PendingFilledOnTick ==
    [][(/\ exec_bar = "next"
        /\ events' # << >>
        /\ events'[Len(events')].type = "FILL"
        /\ events' # events
        /\ Len(events') >= Len(events)) =>
        /\ bar' = bar + 1
        /\ events'[Len(events')].timeindex = bar'
        /\ \A i \in 1..Len(events') : events'[i].type # "ORDER"]_vars

\* C20: PositionManager.update_pnl(symbol, price) for a symbol with no live
\* position raises nothing and leaves the live mapping and the history as they
\* were; for a live symbol it sets that position's last_price to price and its
\* pnl to (last_price - fill_price) x units for BUY, negated for SELL, minus
\* the accumulated commission, and leaves every other position unchanged.
C20_UpdatePnl ==
    [][last_call'.op = "update_pnl" =>
        LET symbol == last_call'.symbol
            price == last_call'.units
        IN  IF symbol \notin DOMAIN positions
            THEN /\ raised' = ""
                 /\ positions' = positions
                 /\ history' = history
            ELSE LET old == positions[symbol]
                     new == positions'[symbol]
                     gross == IF old.side = "BUY"
                              THEN (price - old.fill_price) * old.units
                              ELSE (old.fill_price - price) * old.units
                 IN  /\ raised' = ""
                     /\ DOMAIN positions' = DOMAIN positions
                     /\ new.last_price = price
                     /\ new.pnl = gross - old.commission
                     /\ \A s \in DOMAIN positions \ {symbol} :
                            positions'[s] = positions[s]
                     /\ history' = history]_vars

\* C21: in every reachable state every position in the live mapping has
\* units > 0; a position that a fill closes (by the same or by more units
\* than it has) is removed from the mapping, not kept with zero or negative
\* units.
C21_PositiveSize ==
    \A s \in DOMAIN positions : positions[s].units > 0

\* C21 witness: after at least one position has been closed, the fill just
\* applied has opened a live position of the fill's units.
C21_Witness ==
    /\ Len(history) >= 1
    /\ last_event.type = "FILL"
    /\ last_event.symbol \in DOMAIN positions
    /\ positions[last_event.symbol].units = last_event.units
    /\ positions[last_event.symbol].units > 0

\* C22: the position history is append-only: every step leaves the records
\* already in it as they were, in their order, and it grows, by one record at
\* the end, only in a step that applies an opposite-side fill to the live
\* position of its symbol; an opening fill, a same-side fill and a price
\* update leave it as it was.
C22_HistoryAppendOnly ==
    [][\/ history' = history
       \/ /\ FillStep
          /\ FillMeetsLive
          /\ positions[Head(events).symbol].side # Head(events).side
          /\ Len(history') = Len(history) + 1
          /\ SubSeq(history', 1, Len(history)) = history]_vars

\* The sum of pnl over all records of the position history.
HistoryPnl ==
    SumOver([i \in 1..Len(history) |-> history[i].pnl], 1..Len(history))

\* C23: in every state reached by update_account_from_fill and
\* update_account_from_price calls, balance equals the starting balance plus
\* the sum of pnl over all records of the position history.
C23_RealizedBalance ==
    balance = StartBalance + HistoryPnl
====
